---- MODULE Spec2Model ----
(***************************************************************************)
(* The two byte-supply strategies of src/buffers: FiniteBuffer (finite.rs) *)
(* and RingBuffer (ring.rs), both implementing the Unstructured trait.     *)
(*                                                                         *)
(* One behaviour follows one buffer object: it is constructed by `new`,    *)
(* optionally given a container size limit, and then driven by an          *)
(* arbitrary sequence of trait calls.  A Rust panic aborts the behaviour.  *)
(*                                                                         *)
(* usize is the 64-bit usize of the target the tests are written for       *)
(* (ring_buffer_container_size only holds for an 8-byte usize).  Values of *)
(* usize that matter and do not fit a small integer are written in two's   *)
(* complement: -1 stands for usize::MAX.                                   *)
(***************************************************************************)
EXTENDS Integers, Sequences, FiniteSets, TLC

\* ------------------------------------------------------------------ bounds
MaxLen == 9      \* longest backing region handed to `new`
MaxFill == 10    \* longest output slice handed to fill_buffer
MaxShift == 10   \* largest small `total` handed to shift_right
MaxShrinks == 5  \* longest run of shrink calls after `new` that is counted

\* ------------------------------------------------------- program constants
UsizeBytes == 8  \* size_of::<usize>() on the tests' target

\* ------------------------------------------------------------------ inputs
Iota(L) == [i \in 1..L |-> i]
Filled(L, b) == [i \in 1..L |-> b]

\* Backing regions: [1,2,..,L] (the regions of the tests, every position
\* distinguishable) and L copies of 0xFF.
Regions == {Iota(L) : L \in 0..MaxLen} \cup {Filled(L, 255) : L \in 1..MaxLen}

FillLens == 0..MaxFill
\* -1 is usize::MAX
Totals == (0..MaxShift) \cup {-1}
Limits == {0, 3, 11}

VARIABLES
    kind,                  \* "none" | "finite" | "ring": which struct exists
    buffer,                \* the borrowed backing region (&'a [u8])
    offset,
    virtual_len,
    container_size_limit,
    call,                  \* the last call: name, argument, outcome, and the
                           \* fields as they were when it was made
    fills                  \* total length requested from fill_buffer since
                           \* `new` while fill_buffer is the only trait method
                           \* called and every call returned Ok; -1 after

vars == <<kind, buffer, offset, virtual_len, container_size_limit, call, fills>>

\* ------------------------------------------------------- usize arithmetic
\* usize::saturating_sub
saturating_sub(a, b) == IF a >= b THEN a - b ELSE 0

\* a < b on usize, for a small a and a b that may be written in two's
\* complement
UsizeLt(a, b) == b < 0 \/ a < b

\* 2^e mod m
RECURSIVE Pow2Mod(_, _)
Pow2Mod(e, m) == IF e = 0 THEN 1 % m ELSE (2 * Pow2Mod(e - 1, m)) % m

\* the usize value written t, reduced modulo m >= 1
UsizeMod(t, m) ==
    IF t >= 0 THEN t % m
    ELSE (Pow2Mod(8 * UsizeBytes, m) + m * (1 + (-t) \div m) + t) % m

\* off + total overflows usize (off is a small value)
AddOverflows(off, total) == total < 0 /\ off + total >= 0

\* ---------------------------------------------------------------- records
Zeros(n) == [i \in 1..n |-> 0]

Fields == [offset |-> offset, virtual_len |-> virtual_len,
           container_size_limit |-> container_size_limit, fills |-> fills]

NoCall == [op |-> "none", n |-> 0, res |-> "Ok", virtual_len |-> 0]

\* what the next call record keeps of the call before it: a shift_right made
\* at offset 0 (the first half of a skip-then-fill) or a reset (the middle of
\* a shrink, reset, fill), nothing of other calls
Before ==
    IF (call.op = "shift_right" /\ call.pre.offset = 0) \/ call.op = "reset"
    THEN [op |-> call.op, n |-> call.n, res |-> call.res,
          virtual_len |-> call.pre.virtual_len]
    ELSE NoCall

\* the number of calls since `new` when all of them are shrink calls and
\* there are at most MaxShrinks of them, -1 otherwise
Shrinks(op) ==
    IF op = "new" THEN 0
    ELSE IF op = "shrink" /\ call.shrinks >= 0 /\ call.shrinks < MaxShrinks
         THEN call.shrinks + 1
         ELSE -1

\* the record of a call made in the current state: its name, its argument,
\* its result, the caller's output slice after it (zeroed before it), the
\* value it returned, the fields it found, the call before it, and the run
\* of shrink calls it ends
Called(op, n, res, out, ret) ==
    [op |-> op, n |-> n, res |-> res, out |-> out, ret |-> ret,
     pre |-> Fields, before |-> Before, shrinks |-> Shrinks(op)]

\* a panic unwinds out of the caller: nothing is called afterwards
Live == call.res # "panic"

Init ==
    /\ kind = "none"
    /\ buffer = <<>>
    /\ offset = 0
    /\ virtual_len = 0
    /\ container_size_limit = 0
    /\ fills = 0
    /\ call = [op |-> "init", n |-> 0, res |-> "Ok", out |-> <<>>, ret |-> 0,
               pre |-> [offset |-> 0, virtual_len |-> 0,
                        container_size_limit |-> 0, fills |-> 0],
               before |-> NoCall, shrinks |-> -1]

\* ------------------------------------------------------------ FiniteBuffer
\* FiniteBuffer::new
Finite_new(b) ==
    /\ kind = "none" /\ call.op = "init"
    /\ kind' = "finite"
    /\ buffer' = b
    /\ offset' = 0
    /\ virtual_len' = Len(b)
    /\ container_size_limit' = Len(b)
    /\ fills' = 0
    /\ call' = Called("new", Len(b), "Ok", <<>>, 0)

\* fill_buffer demanding more bytes than the output needs (> for >=)
FiniteHasBytesStrict(vl, off, n) == saturating_sub(vl, off) > n

\* the test of fill_buffer: enough bytes remain for an output of length n
FiniteHasBytes(vl, off, n) == saturating_sub(vl, off) >= n

\* fill_buffer storing the output's length as the new offset
FiniteMaxFromZero(off, n) == n

\* let max = self.offset + buffer.len(), the offset after the fill
FiniteMax(off, n) == off + n

\* fill_buffer copying from the start of the region instead of self.offset
FiniteCopyFromStart(buf, off, n) == [i \in 1..n |-> buf[i]]

\* the copy loop of fill_buffer: buffer[i] = self.buffer[idx] for the i-th idx
\* of self.offset..max (Rust counts both from 0, sequences here from 1)
FiniteCopy(buf, off, n) ==
    [i \in 1..(FiniteMax(off, n) - off) |-> buf[off + i]]

\* FiniteBuffer::fill_buffer on an output slice of length n
Finite_fill_buffer(n) ==
    /\ kind = "finite" /\ Live
    /\ IF FiniteHasBytes(virtual_len, offset, n)
       THEN /\ offset' = FiniteMax(offset, n)
            /\ call' = Called("fill_buffer", n, "Ok", FiniteCopy(buffer, offset, n), 0)
            /\ fills' = IF fills >= 0 THEN fills + n ELSE -1
       ELSE /\ offset' = offset
            /\ call' = Called("fill_buffer", n, "InsufficientBytes", Zeros(n), 0)
            /\ fills' = -1
    /\ UNCHANGED <<kind, buffer, virtual_len, container_size_limit>>

\* reset restoring the window as RingBuffer::reset does
Finite_reset_restoring ==
    /\ kind = "finite" /\ Live
    /\ offset' = 0
    /\ virtual_len' = Len(buffer)
    /\ fills' = -1
    /\ call' = Called("reset", 0, "Ok", <<>>, 0)
    /\ UNCHANGED <<kind, buffer, container_size_limit>>

\* FiniteBuffer::reset
Finite_reset ==
    /\ kind = "finite" /\ Live
    /\ offset' = 0
    /\ fills' = -1
    /\ call' = Called("reset", 0, "Ok", <<>>, 0)
    /\ UNCHANGED <<kind, buffer, virtual_len, container_size_limit>>

\* shift_right letting the cursor run one byte past the window
FiniteShiftFailsOffByOne(vl, off, total) ==
    UsizeLt(saturating_sub(vl, off) + 1, total)

\* shift_right refusing to consume exactly the remaining bytes (<= for <)
FiniteShiftFailsAtEnd(vl, off, total) ==
    total < 0 \/ saturating_sub(vl, off) <= total

\* the test of shift_right: fewer than `total` bytes remain
FiniteShiftFails(vl, off, total) == UsizeLt(saturating_sub(vl, off), total)

\* shift_right consuming what is left of the window when it fails
Finite_shift_right_consuming(total) ==
    /\ kind = "finite" /\ Live
    /\ IF FiniteShiftFails(virtual_len, offset, total)
       THEN /\ offset' = IF offset < virtual_len THEN virtual_len ELSE offset
            /\ call' = Called("shift_right", total, "InsufficientBytes", <<>>, 0)
       ELSE /\ offset' = offset + total
            /\ call' = Called("shift_right", total, "Ok", <<>>, 0)
    /\ fills' = -1
    /\ UNCHANGED <<kind, buffer, virtual_len, container_size_limit>>

\* FiniteBuffer::shift_right
Finite_shift_right(total) ==
    /\ kind = "finite" /\ Live
    /\ IF FiniteShiftFails(virtual_len, offset, total)
       THEN /\ offset' = offset
            /\ call' = Called("shift_right", total, "InsufficientBytes", <<>>, 0)
       ELSE /\ offset' = offset + total
            /\ call' = Called("shift_right", total, "Ok", <<>>, 0)
    /\ fills' = -1
    /\ UNCHANGED <<kind, buffer, virtual_len, container_size_limit>>

\* self.virtual_len /= 2
FiniteHalve(vl) == vl \div 2

\* FiniteBuffer::shrink
Finite_shrink ==
    /\ kind = "finite" /\ Live
    /\ virtual_len' = FiniteHalve(virtual_len)
    /\ fills' = -1
    /\ call' = Called("shrink", 0, "Ok", <<>>, FiniteHalve(virtual_len))
    /\ UNCHANGED <<kind, buffer, offset, container_size_limit>>

\* x % m for the usize x whose little-endian bytes are `bytes` (x itself does
\* not fit a small integer; m >= 1)
RECURSIVE UsizeLeMod(_, _)
UsizeLeMod(bytes, m) ==
    IF bytes = <<>> THEN 0
    ELSE (bytes[1] + 256 * UsizeLeMod(Tail(bytes), m)) % m

\* .map(|x| x % self.container_size_limit) for the usize x of bytes `bytes`
FiniteSize(bytes, csl) == UsizeLeMod(bytes, csl)

\* FiniteBuffer::container_size:
\* <usize as Arbitrary>::arbitrary(self).map(|x| x % self.container_size_limit)
Finite_container_size ==
    /\ kind = "finite" /\ Live
    /\ IF FiniteHasBytes(virtual_len, offset, UsizeBytes)
       THEN LET x == FiniteCopy(buffer, offset, UsizeBytes) IN
            /\ offset' = FiniteMax(offset, UsizeBytes)
            /\ call' = IF container_size_limit = 0
                       THEN Called("container_size", UsizeBytes, "panic", x, 0)
                       ELSE Called("container_size", UsizeBytes, "Ok", x,
                                   FiniteSize(x, container_size_limit))
       ELSE /\ offset' = offset
            /\ call' = Called("container_size", UsizeBytes, "InsufficientBytes",
                              Zeros(UsizeBytes), 0)
    /\ fills' = -1
    /\ UNCHANGED <<kind, buffer, virtual_len, container_size_limit>>

\* FiniteBuffer::container_size_limit
Finite_container_size_limit(csl) ==
    /\ kind = "finite" /\ Live
    /\ container_size_limit' = csl
    /\ call' = Called("container_size_limit", csl, "Ok", <<>>, 0)
    /\ UNCHANGED <<kind, buffer, offset, virtual_len, fills>>

\* -------------------------------------------------------------- RingBuffer
\* new without the is_empty test
Ring_new_unchecked(b) ==
    /\ kind = "none" /\ call.op = "init"
    /\ kind' = "ring"
    /\ buffer' = b
    /\ virtual_len' = Len(b)
    /\ offset' = 0
    /\ container_size_limit' = Len(b)
    /\ fills' = 0
    /\ call' = Called("new", Len(b), "Ok", <<>>, 0)

\* RingBuffer::new
Ring_new(b) ==
    /\ kind = "none" /\ call.op = "init"
    /\ IF Len(b) = 0
       THEN /\ call' = Called("new", Len(b), "EmptyInput", <<>>, 0)
            /\ UNCHANGED <<kind, buffer, offset, virtual_len,
                           container_size_limit, fills>>
       ELSE /\ kind' = "ring"
            /\ buffer' = b
            /\ virtual_len' = Len(b)
            /\ offset' = 0
            /\ container_size_limit' = Len(b)
            /\ fills' = 0
            /\ call' = Called("new", Len(b), "Ok", <<>>, 0)

\* RingBuffer::container_size_limit
Ring_container_size_limit(csl) ==
    /\ kind = "ring" /\ Live
    /\ container_size_limit' = csl
    /\ call' = Called("container_size_limit", csl, "Ok", <<>>, 0)
    /\ UNCHANGED <<kind, buffer, offset, virtual_len, fills>>

\* the two slice expressions of fill_buffer are in bounds:
\* &self.buffer[self.offset..self.virtual_len] and &self.buffer[..self.offset]
RingSlicesOk(buf, off, vl) == off <= vl /\ vl <= Len(buf) /\ off <= Len(buf)

\* b[0] followed by b[1]: one period of the repeated iterator `it`
RingPeriod(buf, off, vl) == SubSeq(buf, off + 1, vl) \o SubSeq(buf, 1, off)

\* buffer.iter_mut().zip(it): the first n items of the period repeated
RingCopy(buf, off, vl, n) ==
    LET p == RingPeriod(buf, off, vl)
    IN  [i \in 1..n |-> p[((i - 1) % Len(p)) + 1]]

\* (self.offset + n) % self.virtual_len for an n that does not overflow
RingAdvance(off, n, vl) == (off + n) % vl

\* the fill of an output slice of length n, as a call record and a new offset
\* (op names the trait method that is filling)
RingFill(op, n) ==
    IF ~RingSlicesOk(buffer, offset, virtual_len) \/ virtual_len = 0
    THEN [rec |-> Called(op, n, "panic", Zeros(n), 0), offset |-> offset]
    ELSE [rec |-> Called(op, n, "Ok", RingCopy(buffer, offset, virtual_len, n), 0),
          offset |-> RingAdvance(offset, n, virtual_len)]

\* RingBuffer::fill_buffer on an output slice of length n
Ring_fill_buffer(n) ==
    /\ kind = "ring" /\ Live
    /\ LET f == RingFill("fill_buffer", n) IN
       /\ offset' = f.offset
       /\ call' = f.rec
    /\ fills' = -1
    /\ UNCHANGED <<kind, buffer, virtual_len, container_size_limit>>

\* container_size reducing modulo one more than the limit
RingSizeInclusive(bytes, csl) == UsizeLeMod(bytes, csl + 1)

\* .map(|x| x % self.container_size_limit) for the usize x of bytes `bytes`
RingSize(bytes, csl) == UsizeLeMod(bytes, csl)

\* RingBuffer::container_size
Ring_container_size ==
    /\ kind = "ring" /\ Live
    /\ LET f == RingFill("container_size", UsizeBytes) IN
       /\ offset' = f.offset
       /\ call' = IF f.rec.res = "Ok" /\ container_size_limit = 0
                  THEN [f.rec EXCEPT !.res = "panic"]
                  ELSE IF f.rec.res = "Ok"
                  THEN [f.rec EXCEPT !.ret = RingSize(f.rec.out, container_size_limit)]
                  ELSE f.rec
    /\ fills' = -1
    /\ UNCHANGED <<kind, buffer, virtual_len, container_size_limit>>

\* reset keeping the shrunk window as FiniteBuffer::reset does
Ring_reset_keeping ==
    /\ kind = "ring" /\ Live
    /\ offset' = 0
    /\ fills' = -1
    /\ call' = Called("reset", 0, "Ok", <<>>, 0)
    /\ UNCHANGED <<kind, buffer, virtual_len, container_size_limit>>

\* RingBuffer::reset
Ring_reset ==
    /\ kind = "ring" /\ Live
    /\ offset' = 0
    /\ virtual_len' = Len(buffer)
    /\ fills' = -1
    /\ call' = Called("reset", 0, "Ok", <<>>, 0)
    /\ UNCHANGED <<kind, buffer, container_size_limit>>

\* RingBuffer::shift_right.  self.offset + total can overflow usize: with
\* overflow checks (checks = TRUE, the debug profile) the addition panics,
\* without them it wraps.
Ring_shift_right(total, checks) ==
    /\ kind = "ring" /\ Live
    /\ IF virtual_len = 0 \/ (AddOverflows(offset, total) /\ checks)
       THEN /\ offset' = offset
            /\ call' = Called("shift_right", total, "panic", <<>>, 0)
       ELSE /\ offset' = IF AddOverflows(offset, total)
                         THEN (offset + total) % virtual_len
                         ELSE UsizeMod(offset + total, virtual_len)
            /\ call' = Called("shift_right", total, "Ok", <<>>, 0)
    /\ fills' = -1
    /\ UNCHANGED <<kind, buffer, virtual_len, container_size_limit>>

\* shrink rounding the half up
RingHalveUp(vl) == (vl + 1) \div 2

\* self.virtual_len /= 2
RingHalve(vl) == vl \div 2

\* RingBuffer::shrink
Ring_shrink ==
    /\ kind = "ring" /\ Live
    /\ virtual_len' = RingHalve(virtual_len)
    /\ fills' = -1
    /\ call' = Called("shrink", 0, "Ok", <<>>, RingHalve(virtual_len))
    /\ UNCHANGED <<kind, buffer, offset, container_size_limit>>

Next ==
    \/ \E b \in Regions : Finite_new(b)
    \/ \E n \in FillLens : Finite_fill_buffer(n)
    \/ Finite_container_size
    \/ Finite_reset
    \/ \E t \in Totals : Finite_shift_right(t)
    \/ Finite_shrink
    \/ \E csl \in Limits : Finite_container_size_limit(csl)
    \/ \E b \in Regions : Ring_new(b)
    \/ \E n \in FillLens : Ring_fill_buffer(n)
    \/ Ring_container_size
    \/ \E csl \in Limits : Ring_container_size_limit(csl)
    \/ Ring_reset
    \/ \E t \in Totals : \E checks \in BOOLEAN : Ring_shift_right(t, checks)
    \/ Ring_shrink

Spec == Init /\ [][Next]_vars

\* ================================================================== claims
\* k > d for a usize k that may be written in two's complement and a small d
UsizeGt(k, d) == k < 0 \/ k > d

IsFinite == kind = "finite"
IsRing == kind = "ring"

\* C1: a FiniteBuffer that has only been filled since `new`: a fill_buffer
\* that brings the total requested to at most the region's length returns Ok,
\* and once the total is exactly the region's length a fill_buffer of length
\* >= 1 returns InsufficientBytes.
C1_BoundedExhaustion ==
    (IsFinite /\ call.op = "fill_buffer" /\ call.pre.fills >= 0) =>
        /\ call.pre.fills + call.n <= Len(buffer) => call.res = "Ok"
        /\ (call.pre.fills = Len(buffer) /\ call.n >= 1)
              => call.res = "InsufficientBytes"

\* fills summing to the whole of a region of 3 bytes or more have succeeded
\* and the next fill has failed
C1_Witness ==
    /\ IsFinite /\ Len(buffer) >= 3
    /\ call.op = "fill_buffer" /\ call.n >= 1
    /\ call.pre.fills = Len(buffer)
    /\ call.res = "InsufficientBytes"

\* C2: every RingBuffer fill_buffer of length n returns Ok with
\* output[i] = region[(offset + i) mod virtual_len] for 0 <= i < n and leaves
\* offset = (offset + n) mod virtual_len.
C2_WrappingPeriodicity ==
    (IsRing /\ call.op = "fill_buffer") =>
        /\ call.res = "Ok"
        /\ call.pre.virtual_len >= 1
        /\ Len(call.out) = call.n
        /\ \A i \in 0..(call.n - 1) :
              call.out[i + 1] =
                  buffer[((call.pre.offset + i) % call.pre.virtual_len) + 1]
        /\ offset = (call.pre.offset + call.n) % call.pre.virtual_len

\* C3: a constructed RingBuffer always has virtual_len >= 1.
C3_RingWindowNonEmpty == IsRing => virtual_len >= 1

\* C4: a constructed RingBuffer always has 0 <= offset < virtual_len.
C4_RingOffsetInWindow == IsRing => (0 <= offset /\ offset < virtual_len)

\* C5 as stated: a FiniteBuffer always has
\* 0 <= offset <= virtual_len <= backing_length.
C5_BoundedInvariant_Original ==
    IsFinite => (0 <= offset /\ offset <= virtual_len /\ virtual_len <= Len(buffer))

\* C5 as amended: a FiniteBuffer always has 0 <= offset <= backing_length and
\* 0 <= virtual_len <= backing_length, and every call other than shrink that
\* finds offset <= virtual_len leaves offset <= virtual_len.
C5_BoundedInvariant ==
    IsFinite =>
        /\ 0 <= offset /\ offset <= Len(buffer)
        /\ 0 <= virtual_len /\ virtual_len <= Len(buffer)
        /\ (call.op # "shrink" /\ call.pre.offset <= call.pre.virtual_len)
              => offset <= virtual_len

\* a shrink after consumption has left the cursor beyond the window
C5_Witness ==
    /\ IsFinite /\ call.op = "shrink"
    /\ call.pre.offset <= call.pre.virtual_len
    /\ offset > virtual_len

\* C6: on a RingBuffer whose window is non-zero every fill_buffer and every
\* shift_right returns Ok.
C6_RingInfallible ==
    (IsRing /\ call.op \in {"fill_buffer", "shift_right"}
            /\ call.pre.virtual_len >= 1) => call.res = "Ok"

\* C7: a RingBuffer shrink sets virtual_len to floor(v/2) and returns it, and
\* every fill_buffer made while the window is shrunk returns Ok with bytes
\* that cycle in order over the first virtual_len bytes of the region.
C7_RingShrinkHalves ==
    IsRing =>
        /\ call.op = "shrink" =>
              /\ virtual_len = call.pre.virtual_len \div 2
              /\ call.ret = virtual_len
        /\ (call.op = "fill_buffer" /\ call.pre.virtual_len < Len(buffer)) =>
              /\ call.res = "Ok"
              /\ call.pre.virtual_len >= 1
              /\ \E start \in 0..(call.pre.virtual_len - 1) :
                    \A i \in 0..(call.n - 1) :
                        call.out[i + 1] =
                            buffer[((start + i) % call.pre.virtual_len) + 1]

\* C8 as stated: FiniteBuffer::shift_right(k) returns InsufficientBytes iff
\* k > virtual_len - offset, and otherwise returns Ok having advanced offset
\* by k.
C8_BoundedSkip_Original ==
    (IsFinite /\ call.op = "shift_right") =>
        /\ call.res = "InsufficientBytes"
              <=> UsizeGt(call.n, call.pre.virtual_len - call.pre.offset)
        /\ call.res # "InsufficientBytes"
              => (call.res = "Ok" /\ offset = call.pre.offset + call.n)
        /\ call.res = "InsufficientBytes" => offset = call.pre.offset

\* C8 as amended: FiniteBuffer::shift_right(k) returns InsufficientBytes iff
\* k > max(virtual_len - offset, 0), and otherwise returns Ok having advanced
\* offset by k.
C8_BoundedSkip ==
    (IsFinite /\ call.op = "shift_right") =>
        LET d == call.pre.virtual_len - call.pre.offset
            remaining == IF d > 0 THEN d ELSE 0
        IN  /\ call.res = "InsufficientBytes" <=> UsizeGt(call.n, remaining)
            /\ call.res # "InsufficientBytes"
                  => (call.res = "Ok" /\ offset = call.pre.offset + call.n)
            /\ call.res = "InsufficientBytes" => offset = call.pre.offset

\* a skip made with the cursor beyond the window after a shrink has succeeded
C8_Witness ==
    /\ IsFinite /\ call.op = "shift_right"
    /\ call.pre.offset > call.pre.virtual_len
    /\ call.res = "Ok"

\* C9: on a FiniteBuffer at offset 0, shift_right(k) followed by fill_buffer
\* of length n both return Ok iff k + n <= virtual_len; the fill then yields
\* region[k .. k+n), and otherwise one of the two returns InsufficientBytes.
C9_SkipThenFill ==
    (IsFinite /\ call.op = "fill_buffer" /\ call.before.op = "shift_right") =>
        LET k == call.before.n
            n == call.n
            both == call.before.res = "Ok" /\ call.res = "Ok"
        IN  /\ both <=> (k >= 0 /\ k + n <= call.before.virtual_len)
            /\ both => call.out = SubSeq(buffer, k + 1, k + n)
            /\ ~both => "InsufficientBytes" \in {call.before.res, call.res}

\* a skip of k >= 1 from offset 0 and a fill of n >= 2 have both succeeded
C9_Witness ==
    /\ IsFinite /\ call.op = "fill_buffer" /\ call.before.op = "shift_right"
    /\ call.before.n >= 1 /\ call.n >= 2
    /\ call.before.res = "Ok" /\ call.res = "Ok"

\* C10: a FiniteBuffer fill_buffer of length n that returns Ok has written
\* output[i] = region[offset + i] for 0 <= i < n, has read no byte at or
\* beyond virtual_len, and has advanced offset by n.
C10_BoundedFillResult ==
    (IsFinite /\ call.op = "fill_buffer" /\ call.res = "Ok") =>
        /\ Len(call.out) = call.n
        /\ \A i \in 0..(call.n - 1) :
              /\ call.pre.offset + i < call.pre.virtual_len
              /\ call.out[i + 1] = buffer[call.pre.offset + i + 1]
        /\ offset = call.pre.offset + call.n

\* a fill of 2 bytes or more from a cursor that is not at the start
C10_Witness ==
    /\ IsFinite /\ call.op = "fill_buffer" /\ call.res = "Ok"
    /\ call.n >= 2 /\ call.pre.offset >= 1

\* a FiniteBuffer with no byte left in its window
Exhausted == offset >= virtual_len

\* C11 as stated: once a FiniteBuffer has offset = virtual_len, it stays
\* exhausted and every fill_buffer fails with InsufficientBytes, whatever is
\* called, until reset.
C11_ExhaustionTerminal_Original ==
    [][(IsFinite /\ Exhausted /\ call'.op # "reset") =>
          /\ Exhausted'
          /\ call'.op = "fill_buffer" => call'.res = "InsufficientBytes"]_vars

\* C11 as amended: once a FiniteBuffer has offset = virtual_len, it stays
\* exhausted and every fill_buffer of length >= 1 fails with
\* InsufficientBytes, whatever is called, until reset (a fill_buffer of
\* length 0 returns Ok).
C11_ExhaustionTerminal ==
    [][(IsFinite /\ Exhausted /\ call'.op # "reset") =>
          /\ Exhausted'
          /\ (call'.op = "fill_buffer" /\ call'.n >= 1)
                => call'.res = "InsufficientBytes"]_vars

\* a fill of a byte or more has failed on a window that was exhausted and
\* then shrunk
C11_Witness ==
    /\ IsFinite /\ call.op = "fill_buffer" /\ call.n >= 1
    /\ call.pre.virtual_len >= 1
    /\ call.pre.offset > call.pre.virtual_len
    /\ call.res = "InsufficientBytes"

\* C12: FiniteBuffer::reset sets offset to 0 and leaves virtual_len (and the
\* size limit) unchanged, and the fill_buffer that follows a reset returns Ok
\* iff its length is at most virtual_len, yielding the first bytes of the
\* region, and InsufficientBytes otherwise.
C12_BoundedResetKeepsShrink ==
    IsFinite =>
        /\ call.op = "reset" =>
              /\ offset = 0
              /\ virtual_len = call.pre.virtual_len
              /\ container_size_limit = call.pre.container_size_limit
        /\ (call.op = "fill_buffer" /\ call.before.op = "reset") =>
              /\ call.res = "Ok" <=> call.n <= call.before.virtual_len
              /\ call.res = "Ok" => call.out = SubSeq(buffer, 1, call.n)
              /\ call.res # "Ok" => call.res = "InsufficientBytes"
              /\ virtual_len = call.before.virtual_len

\* after a shrink and a reset, a fill that the whole region could serve but
\* the shrunk window cannot has failed
C12_Witness ==
    /\ IsFinite /\ call.op = "fill_buffer" /\ call.before.op = "reset"
    /\ virtual_len >= 1 /\ virtual_len < Len(buffer)
    /\ call.n > virtual_len /\ call.n <= Len(buffer)
    /\ call.res = "InsufficientBytes"

\* C13: RingBuffer::reset sets offset to 0 and virtual_len to the length of
\* the region, and the fill_buffer that follows a reset returns Ok with
\* output[i] = region[i mod length] for 0 <= i < n.
C13_RingResetRestores ==
    IsRing =>
        /\ call.op = "reset" =>
              /\ offset = 0
              /\ virtual_len = Len(buffer)
        /\ (call.op = "fill_buffer" /\ call.before.op = "reset") =>
              /\ call.res = "Ok"
              /\ Len(call.out) = call.n
              /\ \A i \in 0..(call.n - 1) :
                    call.out[i + 1] = buffer[(i % Len(buffer)) + 1]
              /\ offset = call.n % Len(buffer)
              /\ virtual_len = Len(buffer)

\* a reset made on a shrunk window, then a fill longer than the region
C13_Witness ==
    /\ IsRing /\ call.op = "fill_buffer" /\ call.before.op = "reset"
    /\ call.before.virtual_len < Len(buffer)
    /\ Len(buffer) >= 3 /\ call.n > Len(buffer)
    /\ call.res = "Ok"

\* C14 as stated: for both strategies virtual_len is the region's length
\* after `new`, and no call leaves it greater than it found it.
C14_VirtualLenMonotone_Original ==
    (kind # "none") =>
        /\ call.op = "new" => virtual_len = Len(buffer)
        /\ call.op # "new" => virtual_len <= call.pre.virtual_len

\* C14 as amended: for both strategies virtual_len is the region's length
\* after `new` and never exceeds it, and no call leaves it greater than it
\* found it, except RingBuffer::reset, which sets it back to the region's
\* length.
C14_VirtualLenMonotone ==
    (kind # "none") =>
        /\ virtual_len <= Len(buffer)
        /\ call.op = "new" => virtual_len = Len(buffer)
        /\ (call.op # "new" /\ ~(IsRing /\ call.op = "reset"))
              => virtual_len <= call.pre.virtual_len
        /\ (IsRing /\ call.op = "reset") => virtual_len = Len(buffer)

\* a RingBuffer::reset has grown a shrunk window
C14_Witness ==
    /\ IsRing /\ call.op = "reset"
    /\ call.pre.virtual_len >= 1
    /\ virtual_len > call.pre.virtual_len

\* C15: RingBuffer::new fails with EmptyInput exactly on an empty region and
\* otherwise returns a buffer with offset 0 and virtual_len the region's
\* length; FiniteBuffer::new always succeeds, and on an empty region
\* (virtual_len 0) every fill_buffer and shift_right of length >= 1 fails with
\* InsufficientBytes.
C15_ConstructionOnEmpty ==
    /\ (kind = "none" /\ call.op = "new") =>
          (call.res = "EmptyInput" /\ call.n = 0)
    /\ IsRing => Len(buffer) >= 1
    /\ (kind # "none" /\ call.op = "new") =>
          /\ call.res = "Ok"
          /\ call.n = Len(buffer)
          /\ offset = 0
          /\ virtual_len = Len(buffer)
    /\ (IsFinite /\ Len(buffer) = 0) =>
          /\ virtual_len = 0
          /\ (call.op \in {"fill_buffer", "shift_right"} /\ call.n # 0)
                => call.res = "InsufficientBytes"

\* a fill of a byte or more has failed on a FiniteBuffer over an empty region
C15_Witness ==
    /\ IsFinite /\ Len(buffer) = 0
    /\ call.op = "fill_buffer" /\ call.n >= 1
    /\ call.res = "InsufficientBytes"

\* 256^e mod m
RECURSIVE Pow256Mod(_, _)
Pow256Mod(e, m) == IF e = 0 THEN 1 % m ELSE (256 * Pow256Mod(e - 1, m)) % m

\* (bytes[1] + bytes[2] * 256 + .. + bytes[j] * 256^(j-1)) mod m
RECURSIVE LeSumMod(_, _, _)
LeSumMod(bytes, j, m) ==
    IF j = 0 THEN 0
    ELSE (LeSumMod(bytes, j - 1, m) + bytes[j] * Pow256Mod(j - 1, m)) % m

\* C16: for either strategy, a container_size that returns Ok was made with
\* a limit m > 0 and returned r with 0 <= r < m, the little-endian integer of
\* the bytes it drew reduced modulo m.
C16_SizeHintBounded ==
    (kind # "none" /\ call.op = "container_size" /\ call.res = "Ok") =>
        /\ container_size_limit > 0
        /\ 0 <= call.ret /\ call.ret < container_size_limit
        /\ Len(call.out) = UsizeBytes
        /\ call.ret = LeSumMod(call.out, UsizeBytes, container_size_limit)

\* the first container_size of the test ring_buffer_container_size:
\* region [1,2,3,4,5], limit 11, result 9
C16_Witness ==
    /\ IsRing /\ buffer = Iota(5) /\ container_size_limit = 11
    /\ call.op = "container_size" /\ call.res = "Ok"
    /\ call.pre.offset = 0
    /\ call.ret = 9

\* C17: a container_size (with a limit > 0) moves the cursor and fails as a
\* fill of UsizeBytes bytes: on a RingBuffer it returns Ok having drawn
\* region[(offset + i) mod virtual_len], 0 <= i < UsizeBytes, and leaves
\* offset = (offset + UsizeBytes) mod virtual_len; on a FiniteBuffer it
\* returns Ok having drawn region[offset .. offset + UsizeBytes) and advanced
\* offset by UsizeBytes, or InsufficientBytes with offset unchanged when fewer
\* than UsizeBytes bytes remain.
C17_SizeHintConsumes ==
    (call.op = "container_size" /\ call.pre.container_size_limit > 0) =>
        /\ IsRing =>
              /\ call.res = "Ok"
              /\ call.pre.virtual_len >= 1
              /\ offset = (call.pre.offset + UsizeBytes) % call.pre.virtual_len
              /\ \A i \in 0..(UsizeBytes - 1) :
                    call.out[i + 1] =
                        buffer[((call.pre.offset + i) % call.pre.virtual_len) + 1]
        /\ IsFinite =>
              IF call.pre.offset + UsizeBytes <= call.pre.virtual_len
              THEN /\ call.res = "Ok"
                   /\ offset = call.pre.offset + UsizeBytes
                   /\ call.out = SubSeq(buffer, call.pre.offset + 1,
                                        call.pre.offset + UsizeBytes)
              ELSE /\ call.res = "InsufficientBytes"
                   /\ offset = call.pre.offset

\* the fill that follows a successful shift_right(k) made at offset 0 yields
\* the stream of the buffer without its first k bytes
C18_Dropped ==
    (call.op = "fill_buffer" /\ call.res = "Ok"
        /\ call.before.op = "shift_right" /\ call.before.res = "Ok"
        /\ call.before.n >= 0) =>
        \A i \in 0..(call.n - 1) :
            call.out[i + 1] =
                IF IsRing
                THEN buffer[((call.before.n + i) % call.before.virtual_len) + 1]
                ELSE buffer[call.before.n + i + 1]

\* C18: for both strategies shift_right(n) leaves offset, virtual_len and
\* container_size_limit as fill_buffer of length n would leave them from the
\* same state, on a FiniteBuffer it returns Ok exactly when that fill_buffer
\* would, and a skip(k) followed by a fill yields the stream with its next k
\* bytes dropped.
C18_SkipIsFill ==
    [][/\ \A n \in FillLens :
            (call'.op = "shift_right" /\ call'.n = n) =>
                /\ virtual_len' = virtual_len
                /\ container_size_limit' = container_size_limit
                /\ IsFinite =>
                      /\ call'.res = "Ok" <=> FiniteHasBytes(virtual_len, offset, n)
                      /\ offset' = IF FiniteHasBytes(virtual_len, offset, n)
                                   THEN FiniteMax(offset, n) ELSE offset
                /\ IsRing => offset' = RingFill("fill_buffer", n).offset
       /\ C18_Dropped']_vars

\* 2^k
RECURSIVE Pow2(_)
Pow2(k) == IF k = 0 THEN 1 ELSE 2 * Pow2(k - 1)

\* C19: for both strategies shrink replaces virtual_len by floor(virtual_len
\* / 2), returns the new value and leaves offset and container_size_limit
\* unchanged; after k shrinks in a row from `new` on a region of length L,
\* virtual_len = floor(L / 2^k).
C19_ShrinkFrame ==
    (kind # "none") =>
        /\ call.op = "shrink" =>
              /\ virtual_len = call.pre.virtual_len \div 2
              /\ call.ret = virtual_len
              /\ offset = call.pre.offset
              /\ container_size_limit = call.pre.container_size_limit
        /\ call.shrinks >= 0 =>
              virtual_len = Len(buffer) \div Pow2(call.shrinks)

\* three shrinks in a row have brought a region of 8 bytes or more down to
\* floor(L / 8) = 1
C19_Witness ==
    /\ kind # "none" /\ call.op = "shrink" /\ call.shrinks = 3
    /\ Len(buffer) >= 8 /\ virtual_len = 1

\* C20: when FiniteBuffer::fill_buffer or shift_right has returned
\* InsufficientBytes, offset, virtual_len and container_size_limit are as the
\* call found them, the output slice of a fill_buffer is untouched, and a
\* following fill_buffer or shift_right of no more than the bytes that
\* remained before the failed call returns Ok.
C20_FailedChangesNothing ==
    [][LET failed == /\ IsFinite
                     /\ call.op \in {"fill_buffer", "shift_right"}
                     /\ call.res = "InsufficientBytes"
           d == call.pre.virtual_len - call.pre.offset
           remained == IF d > 0 THEN d ELSE 0
       IN  failed =>
             /\ offset = call.pre.offset
             /\ virtual_len = call.pre.virtual_len
             /\ container_size_limit = call.pre.container_size_limit
             /\ call.op = "fill_buffer" => call.out = Zeros(call.n)
             /\ (call'.op \in {"fill_buffer", "shift_right"}
                    /\ call'.n >= 0 /\ call'.n <= remained)
                   => call'.res = "Ok"]_vars

\* a fill of more than the bytes that remain has failed part-way through a
\* window
C20_Witness ==
    /\ IsFinite /\ call.op = "fill_buffer" /\ call.n >= 2
    /\ call.pre.offset >= 1 /\ call.pre.offset < call.pre.virtual_len
    /\ call.res = "InsufficientBytes"
    /\ offset = call.pre.offset
====
